---- MODULE Spec2Model ----
(***************************************************************************)
(* Authentication / session lifecycle of the Wildway REST backend          *)
(* (server/controllers/authController.js): signup, login, logout,          *)
(* protect, restrictTo, getCurrentUser, forgotPassword, resetPassword and  *)
(* updatePassword, over the user collection, the clock, the session        *)
(* tokens in circulation.                                                  *)
(*                                                                         *)
(* Time is counted in whole clock units (the granularity of a JWT's iat);  *)
(* several requests may be served within one unit.  One request at a time  *)
(* passes through a handler chain (protect, then restrictTo and the route  *)
(* handler); the clock and the collection may change between its stages.   *)
(* resetPassword is also given as two steps, its lookup and its save, for  *)
(* the requests that are served concurrently (SpecRace).                   *)
(***************************************************************************)
EXTENDS Integers, FiniteSets, Sequences, TLC

\* ---------------------------------------------------------------- bounds
MaxTime == 3        \* the clock runs 1..MaxTime
MaxUsers == 1       \* document ids 1..MaxUsers
MaxTokens == 1      \* session tokens the clients hold at a time
MaxRaw == 2         \* raw reset secrets: 1 is seeded, 2..MaxRaw are generated
MaxInFlight == 2    \* resetPassword requests served concurrently

\* ------------------------------------------------- configuration (scaled)
JwtExpiresIn == 2       \* process.env.JWT_EXPIRES_IN
CookieExpiresIn == 2    \* process.env.JWT_COOKIE_EXPIRES_IN days
LogoutCookieTTL == 1    \* 10 * 1000 ms
ResetWindow == 2        \* the reset token's validity window (10 minutes)

Absent == 0             \* JavaScript undefined: a field that is not there

Ids == 1..MaxUsers
Emails == {1, 2}
Passwords == {1, 2}
SeedRaw == 1

\* bcrypt hash of a password (pre-save hook of the user model)
HashPassword(p) == p + 10

HashResetSecretInClear(raw) == raw

\* crypto.createHash("sha256").update(raw).digest("hex")
HashResetSecret(raw) == raw + 20

\* user.correctPassword(candidate, stored): bcrypt.compare
CorrectPassword(candidate, stored) == stored # Absent /\ HashPassword(candidate) = stored

\* ------------------------------------------------------------- documents
NoUser ==
  [id |-> Absent, email |-> Absent, password |-> Absent, role |-> "none",
   passwordChangedAt |-> Absent, passwordResetToken |-> Absent,
   passwordResetExpires |-> Absent]

NewUser(id, email, pw) ==
  [id |-> id, email |-> email, password |-> HashPassword(pw), role |-> "user",
   passwordChangedAt |-> Absent, passwordResetToken |-> Absent,
   passwordResetExpires |-> Absent]

Exists(store, id) == id \in Ids /\ store[id].id # Absent

\* the password field is select:false: reads leave it out unless asked for
Projected(doc) == [doc EXCEPT !.password = Absent]

FindByIdWithPassword(store, id) == IF Exists(store, id) THEN store[id] ELSE NoUser

FindById(store, id) == Projected(FindByIdWithPassword(store, id))

MatchEmail(store, email) == {i \in Ids : Exists(store, i) /\ store[i].email = email}

FindOneByEmailWithPassword(store, email) ==
  IF MatchEmail(store, email) = {} THEN NoUser
  ELSE store[CHOOSE i \in MatchEmail(store, email) :
               \A j \in MatchEmail(store, email) : i <= j]

FindOneByEmail(store, email) == Projected(FindOneByEmailWithPassword(store, email))

MatchResetIgnoresExpiry(store, hashed, t) ==
  {i \in Ids : Exists(store, i) /\ store[i].passwordResetToken = hashed}

MatchReset(store, hashed, t) ==
  {i \in Ids : /\ Exists(store, i)
               /\ store[i].passwordResetToken = hashed
               /\ store[i].passwordResetExpires > t}

\* User.findOne({passwordResetToken: hashed, passwordResetExpires: {$gt: now}})
FindOneByResetToken(store, hashed, t) ==
  IF MatchReset(store, hashed, t) = {} THEN NoUser
  ELSE Projected(store[CHOOSE i \in MatchReset(store, hashed, t) :
                         \A j \in MatchReset(store, hashed, t) : i <= j])

\* changedPasswordAfter(JWTTimestamp)
ChangedPasswordAfter(doc, iat) ==
  doc.passwordChangedAt # Absent /\ doc.passwordChangedAt > iat

\* ---------------------------------------------------------------- tokens
NoToken == [kind |-> "none", id |-> 0, iat |-> 0, sig |-> "none"]
LoggedOut == [kind |-> "loggedout", id |-> 0, iat |-> 0, sig |-> "none"]
Forged == [kind |-> "jwt", id |-> 1, iat |-> 1, sig |-> "bad"]

\* jwt.sign({id}, JWT_SECRET, {expiresIn}) at time t
SignToken(id, t) == [kind |-> "jwt", id |-> id, iat |-> t, sig |-> "good"]

\* jwt.verify(token, JWT_SECRET) at time t: the decoded payload, or the
\* error the library raises
Verify(tok, t) ==
  IF tok.kind # "jwt"
    THEN [ok |-> FALSE, id |-> 0, iat |-> 0,
          name |-> "JsonWebTokenError", message |-> "jwt malformed"]
  ELSE IF tok.sig # "good"
    THEN [ok |-> FALSE, id |-> 0, iat |-> 0,
          name |-> "JsonWebTokenError", message |-> "invalid signature"]
  ELSE IF t >= tok.iat + JwtExpiresIn
    THEN [ok |-> FALSE, id |-> 0, iat |-> 0,
          name |-> "TokenExpiredError", message |-> "jwt expired"]
  ELSE [ok |-> TRUE, id |-> tok.id, iat |-> tok.iat, name |-> "none", message |-> ""]

NoCookie == [value |-> NoToken, expires |-> 0]

\* ------------------------------------------------------------- responses
\* What one handler invocation did to (res, next): the JSON response it
\* sent (sent, status, message, token, setCookie, user), the error it
\* forwarded with next(err) (error, status, message), and whether it called
\* next() without an argument.  resetToken is req.params.token of a
\* resetPassword request (Absent for the other handlers).
NoRes ==
  [handler |-> "none", status |-> 0, message |-> "", token |-> NoToken,
   setCookie |-> NoCookie, hasUser |-> FALSE, user |-> NoUser,
   sent |-> FALSE, error |-> "none", next |-> FALSE, resetToken |-> Absent]

\* next(err): err with its name, statusCode and message
Forward(handler, name, statusCode, message) ==
  [NoRes EXCEPT !.handler = handler, !.error = name, !.status = statusCode,
                !.message = message]

\* next(new AppError(message, statusCode))
AppError(handler, message, statusCode) ==
  Forward(handler, "AppError", statusCode, message)

\* a rejected save()/create(): the store's validation error, forwarded by
\* catchAsync
ValidationError(handler) ==
  Forward(handler, "ValidationError", 400, "validation failed")

\* next() after the handler's own work
CallNext(r) == [r EXCEPT !.next = TRUE]

CreateSendTokenKeepsPassword(handler, user, statusCode, t) ==
  [NoRes EXCEPT !.handler = handler, !.status = statusCode,
                !.message = "success", !.token = SignToken(user.id, t),
                !.setCookie = [value |-> SignToken(user.id, t),
                               expires |-> t + CookieExpiresIn],
                !.hasUser = TRUE, !.user = user, !.sent = TRUE]

\* createSendToken(user, statusCode, res) at time t
CreateSendToken(handler, user, statusCode, t) ==
  [NoRes EXCEPT !.handler = handler, !.status = statusCode,
                !.message = "success", !.token = SignToken(user.id, t),
                !.setCookie = [value |-> SignToken(user.id, t),
                               expires |-> t + CookieExpiresIn],
                !.hasUser = TRUE, !.user = [user EXCEPT !.password = Absent],
                !.sent = TRUE]

\* -------------------------------------------------------------- handlers
\* User.create validation: the confirmation matches and the email is new
SignupValid(store, email, pw, confirm) ==
  pw = confirm /\ MatchEmail(store, email) = {}

SignupResult(store, t, id, email, pw, confirm) ==
  IF SignupValid(store, email, pw, confirm)
    THEN CallNext(CreateSendToken("signup", NewUser(id, email, pw), 201, t))
    ELSE ValidationError("signup")

SignupStore(store, id, email, pw, confirm) ==
  IF SignupValid(store, email, pw, confirm)
    THEN [store EXCEPT ![id] = NewUser(id, email, pw)]
    ELSE store

LoginResultLeaksExistence(store, t, email, password) ==
  IF email = Absent \/ password = Absent
    THEN AppError("login", "Please provide email and password!", 400)
  ELSE IF FindOneByEmailWithPassword(store, email).id = Absent
    THEN AppError("login", "There is no user with this email address!", 404)
  ELSE IF ~CorrectPassword(password, FindOneByEmailWithPassword(store, email).password)
    THEN AppError("login", "Incorrect email or password!", 401)
  ELSE CreateSendToken("login", FindOneByEmailWithPassword(store, email), 200, t)

LoginResult(store, t, email, password) ==
  IF email = Absent \/ password = Absent
    THEN AppError("login", "Please provide email and password!", 400)
  ELSE IF \/ FindOneByEmailWithPassword(store, email).id = Absent
          \/ ~CorrectPassword(password, FindOneByEmailWithPassword(store, email).password)
    THEN AppError("login", "Incorrect email or password!", 401)
  ELSE CreateSendToken("login", FindOneByEmailWithPassword(store, email), 200, t)

\* the Authorization header of a request
NoHeader == [scheme |-> "none", token |-> NoToken]
Bearer(tok) == [scheme |-> "Bearer", token |-> tok]

ExtractTokenCookieFirst(header, cookieTok) ==
  IF cookieTok # NoToken THEN cookieTok
  ELSE IF header.scheme = "Bearer" THEN header.token
  ELSE NoToken

\* protect, lines 87-97: the token taken from the header, else the cookie
ExtractToken(header, cookieTok) ==
  IF header.scheme = "Bearer" THEN header.token
  ELSE IF cookieTok # NoToken THEN cookieTok
  ELSE NoToken

ProtectResultNoFreshness(store, t, header, cookieTok) ==
  LET token == ExtractToken(header, cookieTok)
      decoded == Verify(token, t)
      freshUser == FindById(store, decoded.id)
  IN IF token = NoToken
       THEN AppError("protect",
                     "You are not logged in! Please log in to your account.", 401)
     ELSE IF ~decoded.ok
       THEN Forward("protect", decoded.name, 0, decoded.message)
     ELSE IF freshUser.id = Absent
       THEN AppError("protect",
                     "The user belonging to this token no longer exists!", 401)
     ELSE CallNext([NoRes EXCEPT !.handler = "protect", !.user = freshUser])

\* protect: what it forwards, or (next, user) when it lets the request on
ProtectResult(store, t, header, cookieTok) ==
  LET token == ExtractToken(header, cookieTok)
      decoded == Verify(token, t)
      freshUser == FindById(store, decoded.id)
  IN IF token = NoToken
       THEN AppError("protect",
                     "You are not logged in! Please log in to your account.", 401)
     ELSE IF ~decoded.ok
       THEN Forward("protect", decoded.name, 0, decoded.message)
     ELSE IF freshUser.id = Absent
       THEN AppError("protect",
                     "The user belonging to this token no longer exists!", 401)
     ELSE IF ChangedPasswordAfter(freshUser, decoded.iat)
       THEN AppError("protect",
                     "User recently changed his password! Please log in again.", 401)
     ELSE CallNext([NoRes EXCEPT !.handler = "protect", !.user = freshUser])

\* restrictTo(...roles): the AppError is constructed and dropped; next() is
\* called in every case
RestrictToResult(roles, user) == CallNext([NoRes EXCEPT !.handler = "restrictTo"])

GetCurrentUserResult(user) ==
  [NoRes EXCEPT !.handler = "getCurrentUser", !.status = 200,
                !.message = "success", !.hasUser = TRUE, !.user = user,
                !.sent = TRUE]

LogoutCookieLongLived(t) == [value |-> LoggedOut, expires |-> t + CookieExpiresIn]

\* res.cookie("jwt", "loggedout", {expires: new Date(Date.now() + 10 * 1000)})
LogoutCookie(t) == [value |-> LoggedOut, expires |-> t + LogoutCookieTTL]

LogoutResult(t) ==
  [NoRes EXCEPT !.handler = "logout", !.status = 200, !.message = "success",
                !.setCookie = LogoutCookie(t), !.sent = TRUE]

\* ---------------------------------------------------- password handlers
\* user.passwordResetToken(): a fresh raw secret; its hash and expiry are
\* set on the in-memory document only
GenerateResetSecret(doc, raw, t) ==
  [doc EXCEPT !.passwordResetToken = HashResetSecret(raw),
              !.passwordResetExpires = t + ResetWindow]

\* user.save() of a document whose reset fields were set to undefined
ClearResetFields(store, id) ==
  [store EXCEPT ![id].passwordResetToken = Absent,
                ![id].passwordResetExpires = Absent]

ForgotPasswordResultHidesUnknown(store, email, mailOk) ==
  IF FindOneByEmail(store, email).id = Absent \/ mailOk
    THEN CallNext([NoRes EXCEPT !.handler = "forgotPassword", !.status = 200,
                                !.message = "Token sent to email!", !.sent = TRUE])
  ELSE AppError("forgotPassword",
                "There was an error sending the email. Try again later!", 500)

ForgotPasswordResult(store, email, mailOk) ==
  IF FindOneByEmail(store, email).id = Absent
    THEN AppError("forgotPassword", "There is no user with this email address!", 404)
  ELSE IF mailOk
    THEN CallNext([NoRes EXCEPT !.handler = "forgotPassword", !.status = 200,
                                !.message = "Token sent to email!", !.sent = TRUE])
  ELSE AppError("forgotPassword",
                "There was an error sending the email. Try again later!", 500)

ForgotPasswordStoreNoRollback(store, email, raw, t, mailOk) ==
  IF FindOneByEmail(store, email).id = Absent \/ mailOk THEN store
  ELSE [store EXCEPT ![FindOneByEmail(store, email).id] =
          GenerateResetSecret(@, raw, t)]

\* forgotPassword's writes: none on the success path (the document that
\* carries the new hash and expiry is never saved), the cleared reset
\* fields on the failure path
ForgotPasswordStore(store, email, raw, t, mailOk) ==
  IF FindOneByEmail(store, email).id = Absent \/ mailOk THEN store
  ELSE ClearResetFields(store, FindOneByEmail(store, email).id)

\* the outcome of resetPassword: "invalid", "validation" or "ok"
ResetPasswordCase(store, t, token, pw, confirm) ==
  IF FindOneByResetToken(store, HashResetSecret(token), t).id = Absent THEN "invalid"
  ELSE IF pw # confirm THEN "validation"
  ELSE "ok"

ResetPasswordOutcome(store, t, token, pw, confirm) ==
  LET user == FindOneByResetToken(store, HashResetSecret(token), t)
      c == ResetPasswordCase(store, t, token, pw, confirm)
  IN IF c = "invalid"
       THEN AppError("resetPassword", "Token is invalid or has expired!", 400)
     ELSE IF c = "validation" THEN ValidationError("resetPassword")
     ELSE CallNext(CreateSendToken("resetPassword",
            [user EXCEPT !.password = HashPassword(pw),
                         !.passwordResetToken = Absent,
                         !.passwordResetExpires = Absent], 201, t))

ResetPasswordResult(store, t, token, pw, confirm) ==
  [ResetPasswordOutcome(store, t, token, pw, confirm) EXCEPT !.resetToken = token]

ResetPasswordStoreKeepsToken(store, t, token, pw, confirm) ==
  IF ResetPasswordCase(store, t, token, pw, confirm) # "ok" THEN store
  ELSE [store EXCEPT
          ![FindOneByResetToken(store, HashResetSecret(token), t).id].password =
             HashPassword(pw)]

\* resetPassword's save: the new password (hashed on save) and the cleared
\* reset fields; passwordChangedAt is not assigned
ResetPasswordStore(store, t, token, pw, confirm) ==
  IF ResetPasswordCase(store, t, token, pw, confirm) # "ok" THEN store
  ELSE [ClearResetFields(store,
          FindOneByResetToken(store, HashResetSecret(token), t).id) EXCEPT
          ![FindOneByResetToken(store, HashResetSecret(token), t).id].password =
             HashPassword(pw)]

\* the outcome of updatePassword for the user bound to the request:
\* "gone" (findById returned null), "wrong", "validation" or "ok"
UpdatePasswordCase(store, id, current, pw, confirm) ==
  IF FindByIdWithPassword(store, id).id = Absent THEN "gone"
  ELSE IF ~CorrectPassword(current, FindByIdWithPassword(store, id).password) THEN "wrong"
  ELSE IF pw # confirm THEN "validation"
  ELSE "ok"

UpdatePasswordResult(store, t, id, current, pw, confirm) ==
  LET c == UpdatePasswordCase(store, id, current, pw, confirm)
  IN IF c = "gone"
       THEN Forward("updatePassword", "TypeError", 0,
                    "Cannot read properties of null")
     ELSE IF c = "wrong"
       THEN AppError("updatePassword", "Your current password is wrong!", 401)
     ELSE IF c = "validation" THEN ValidationError("updatePassword")
     ELSE CallNext(CreateSendToken("updatePassword",
            [FindByIdWithPassword(store, id) EXCEPT
               !.password = HashPassword(pw), !.passwordChangedAt = t], 201, t))

UpdatePasswordStoreStampsOnWrong(store, t, id, current, pw, confirm) ==
  IF UpdatePasswordCase(store, id, current, pw, confirm) \notin {"ok", "wrong"}
    THEN store
  ELSE [store EXCEPT ![id].password = HashPassword(pw),
                     ![id].passwordChangedAt = t]

UpdatePasswordStoreLateStamp(store, t, id, current, pw, confirm) ==
  IF UpdatePasswordCase(store, id, current, pw, confirm) # "ok" THEN store
  ELSE [store EXCEPT ![id].password = HashPassword(pw),
                     ![id].passwordChangedAt = t + 1]

\* updatePassword's save: the new password and passwordChangedAt = Date.now()
UpdatePasswordStore(store, t, id, current, pw, confirm) ==
  IF UpdatePasswordCase(store, id, current, pw, confirm) # "ok" THEN store
  ELSE [store EXCEPT ![id].password = HashPassword(pw),
                     ![id].passwordChangedAt = t]

\* ----------------------------------------------------------------- state
VARIABLES
  users,      \* the user collection: id -> document (NoUser where none)
  nextId,     \* the id the next created document gets
  now,        \* Date.now()
  issued,     \* the session tokens the clients hold
  req,        \* the request in the protected pipeline: stage, req.user, roles
  res,        \* what the last handler invocation did
  mail,       \* sendEmail calls: the raw secret, the addressee, delivered or not
  used,       \* the reset secrets a successful resetPassword has consumed
  logouts,    \* the logout calls made since the client last received a
              \* session cookie, counted up to 2 (0: the jwt cookie is not
              \* the sentinel)
  resets      \* the resetPassword requests in flight, each between its
              \* awaits: stage, req.params.token, the document found, the
              \* outcome

vars == <<users, nextId, now, issued, req, res, mail, used, logouts, resets>>

Reqs == 1..MaxInFlight

IdleReset == [stage |-> "idle", token |-> Absent, user |-> NoUser, res |-> NoRes]

IdleReq == [stage |-> "idle", user |-> NoUser, roles |-> {}]

SeedUser(withReset) ==
  [id |-> 1, email |-> 1, password |-> HashPassword(1), role |-> "admin",
   passwordChangedAt |-> Absent,
   passwordResetToken |-> IF withReset THEN HashResetSecret(SeedRaw) ELSE Absent,
   passwordResetExpires |-> IF withReset THEN 1 + ResetWindow ELSE Absent]

\* the collection at start: empty, or holding the seeded account
Init ==
  /\ \/ /\ users = [i \in Ids |-> NoUser]
        /\ nextId = 1
     \/ /\ \E withReset \in BOOLEAN :
             users = [i \in Ids |-> IF i = 1 THEN SeedUser(withReset) ELSE NoUser]
        /\ nextId = 2
  /\ now = 1
  /\ issued = {}
  /\ req = IdleReq
  /\ res = NoRes
  /\ mail = {}
  /\ used = {}
  /\ logouts = 0
  /\ resets = [r \in Reqs |-> IdleReset]

RoleSets == {{"admin"}, {"admin", "user"}}
\* the headers a client can send: none, an empty Bearer, a token it holds
\* or a forged one
Headers == {NoHeader, Bearer(NoToken)} \cup {Bearer(t) : t \in issued \cup {Forged}}

\* every well-signed token, and every header and cookie value, of the model
AllTokens == {SignToken(i, t) : i \in Ids, t \in 1..MaxTime}
AllHeaders == {NoHeader, Bearer(NoToken)} \cup {Bearer(t) : t \in AllTokens \cup {Forged}}
AllCookies == {NoToken, LoggedOut} \cup AllTokens
ResetInputs == (1..MaxRaw) \cup {HashResetSecret(SeedRaw)}

\* the tokens the clients hold once r has arrived: they keep r's token, and
\* beyond MaxTokens they forget one
Kept(r) ==
  IF r.token = NoToken THEN {issued}
  ELSE IF Cardinality(issued \cup {r.token}) <= MaxTokens
    THEN {issued \cup {r.token}}
  ELSE {(issued \ {t}) \cup {r.token} : t \in issued} \cup {issued}

\* the client's count of logout calls once r has arrived: r's Set-Cookie
\* overwrites the jwt cookie, with the sentinel or with a session token
LogoutsAfter(r) ==
  IF r.setCookie = NoCookie THEN logouts
  ELSE IF r.setCookie.value # LoggedOut THEN 0
  ELSE IF logouts < 2 THEN logouts + 1
  ELSE 2

\* the client receives r
Respond(r) ==
  /\ res' = r
  /\ issued' \in Kept(r)
  /\ logouts' = LogoutsAfter(r)

\* req.cookies.jwt: nothing, a token received earlier, or the logout sentinel
Cookies == {NoToken, LoggedOut} \cup issued

\* no request is in the protected pipeline
Idle == req.stage = "idle"

\* --------------------------------------------------------------- actions
Signup(email, pw, confirm) ==
  /\ Idle
  /\ nextId <= MaxUsers
  /\ Respond(SignupResult(users, now, nextId, email, pw, confirm))
  /\ users' = SignupStore(users, nextId, email, pw, confirm)
  /\ nextId' = IF SignupValid(users, email, pw, confirm) THEN nextId + 1 ELSE nextId
  /\ UNCHANGED <<now, req, mail, used, resets>>

Login(email, password) ==
  /\ Idle
  /\ Respond(LoginResult(users, now, email, password))
  /\ UNCHANGED <<users, nextId, now, req, mail, used, resets>>

GetCurrentUser ==
  /\ req.stage = "protected"
  /\ res' = GetCurrentUserResult(req.user)
  /\ req' = IdleReq
  /\ UNCHANGED <<users, nextId, now, issued, mail, used, logouts, resets>>

Logout ==
  /\ Idle
  /\ Respond(LogoutResult(now))
  /\ UNCHANGED <<users, nextId, now, req, mail, used, resets>>

Protect(header, cookieTok) ==
  /\ Idle
  /\ header \in Headers
  /\ cookieTok \in Cookies
  /\ res' = ProtectResult(users, now, header, cookieTok)
  /\ req' = IF ProtectResult(users, now, header, cookieTok).next
              THEN [stage |-> "protected",
                    user |-> ProtectResult(users, now, header, cookieTok).user,
                    roles |-> {}]
              ELSE IdleReq
  /\ UNCHANGED <<users, nextId, now, issued, mail, used, logouts, resets>>

RestrictTo(roles) ==
  /\ req.stage = "protected"
  /\ res' = RestrictToResult(roles, req.user)
  /\ req' = IF RestrictToResult(roles, req.user).next
              THEN [req EXCEPT !.stage = "downstream", !.roles = roles]
              ELSE IdleReq
  /\ UNCHANGED <<users, nextId, now, issued, mail, used, logouts, resets>>

\* the route handler behind restrictTo (a tour or user administration
\* handler): reaching it is what the gate decides
Downstream ==
  /\ req.stage = "downstream"
  /\ res' = [NoRes EXCEPT !.handler = "downstream", !.status = 200,
                          !.message = "success", !.sent = TRUE]
  /\ req' = IdleReq
  /\ UNCHANGED <<users, nextId, now, issued, mail, used, logouts, resets>>

\* the raw secret the next forgotPassword request generates
FreshRaw == SeedRaw + Cardinality(mail) + 1

ForgotPassword(email, mailOk) ==
  /\ Idle
  /\ FindOneByEmail(users, email).id # Absent => FreshRaw <= MaxRaw
  /\ res' = ForgotPasswordResult(users, email, mailOk)
  /\ users' = ForgotPasswordStore(users, email, FreshRaw, now, mailOk)
  /\ mail' = IF FindOneByEmail(users, email).id = Absent THEN mail
             ELSE mail \cup {[raw |-> FreshRaw,
                              id |-> FindOneByEmail(users, email).id,
                              delivered |-> mailOk]}
  /\ UNCHANGED <<nextId, now, issued, req, used, logouts, resets>>

ResetPassword(token, pw, confirm) ==
  /\ Idle
  /\ Respond(ResetPasswordResult(users, now, token, pw, confirm))
  /\ users' = ResetPasswordStore(users, now, token, pw, confirm)
  /\ used' = IF ResetPasswordCase(users, now, token, pw, confirm) = "ok"
               THEN used \cup {token} ELSE used
  /\ UNCHANGED <<nextId, now, req, mail, resets>>

UpdatePassword(current, pw, confirm) ==
  /\ req.stage = "protected"
  /\ Respond(UpdatePasswordResult(users, now, req.user.id, current, pw, confirm))
  /\ users' = UpdatePasswordStore(users, now, req.user.id, current, pw, confirm)
  /\ req' = IdleReq
  /\ UNCHANGED <<nextId, now, mail, used, resets>>

\* a document removed from the collection by another part of the application
DeleteUser(id) ==
  /\ Exists(users, id)
  /\ users' = [users EXCEPT ![id] = NoUser]
  /\ UNCHANGED <<nextId, now, issued, req, res, mail, used, logouts, resets>>

Tick ==
  /\ now < MaxTime
  /\ now' = now + 1
  /\ UNCHANGED <<users, nextId, issued, req, res, mail, used, logouts, resets>>

\* resetPassword of request r up to its first await: the hashed token and
\* the lookup; no match ends the request with the 400
ResetLookup(r, token) ==
  /\ resets[r].stage \in {"idle", "done"}
  /\ resets' = [resets EXCEPT ![r] =
       IF FindOneByResetToken(users, HashResetSecret(token), now).id = Absent
         THEN [stage |-> "done", token |-> token, user |-> NoUser,
               res |-> [AppError("resetPassword",
                                 "Token is invalid or has expired!", 400)
                          EXCEPT !.resetToken = token]]
         ELSE [stage |-> "found", token |-> token,
               user |-> FindOneByResetToken(users, HashResetSecret(token), now),
               res |-> NoRes]]
  /\ UNCHANGED <<users, nextId, now, issued, req, res, mail, used, logouts>>

\* user.save() of the document request r holds: its modified paths (the
\* password and the two cleared reset fields) are written over whatever the
\* stored record holds by now
ResetSaveStore(store, doc, pw) ==
  [ClearResetFields(store, doc.id) EXCEPT ![doc.id].password = HashPassword(pw)]

\* resetPassword of request r from the lookup's return on: the assignments,
\* the save and the response
ResetSave(r, pw, confirm) ==
  /\ resets[r].stage = "found"
  /\ resets' = [resets EXCEPT ![r].stage = "done",
       ![r].res = IF pw # confirm
                    THEN [ValidationError("resetPassword")
                            EXCEPT !.resetToken = resets[r].token]
                    ELSE [CallNext(CreateSendToken("resetPassword",
                            [resets[r].user EXCEPT
                               !.password = HashPassword(pw),
                               !.passwordResetToken = Absent,
                               !.passwordResetExpires = Absent], 201, now))
                            EXCEPT !.resetToken = resets[r].token]]
  /\ users' = IF pw # confirm THEN users
              ELSE ResetSaveStore(users, resets[r].user, pw)
  /\ used' = IF pw # confirm THEN used ELSE used \cup {resets[r].token}
  /\ UNCHANGED <<nextId, now, issued, req, res, mail, logouts>>

Next ==
  \/ \E e \in Emails, p \in Passwords, c \in Passwords : Signup(e, p, c)
  \/ \E e \in Emails \cup {Absent}, p \in Passwords \cup {Absent} : Login(e, p)
  \/ GetCurrentUser
  \/ Logout
  \/ \E h \in AllHeaders, c \in AllCookies : Protect(h, c)
  \/ \E roles \in RoleSets : RestrictTo(roles)
  \/ Downstream
  \/ \E e \in Emails, ok \in BOOLEAN : ForgotPassword(e, ok)
  \/ \E k \in ResetInputs, p \in Passwords, c \in Passwords : ResetPassword(k, p, c)
  \/ \E cur \in Passwords, p \in Passwords, c \in Passwords : UpdatePassword(cur, p, c)
  \/ \E i \in Ids : DeleteUser(i)
  \/ Tick

Spec == Init /\ [][Next]_vars

\* The session half alone: no reset is pending and none is requested, and
\* the clients do not log out.
InitSession == Init /\ \A i \in Ids : users[i].passwordResetToken = Absent

NextSession ==
  \/ \E e \in Emails, p \in Passwords, c \in Passwords : Signup(e, p, c)
  \/ \E e \in Emails \cup {Absent}, p \in Passwords \cup {Absent} : Login(e, p)
  \/ GetCurrentUser
  \/ \E h \in AllHeaders, c \in AllCookies : Protect(h, c)
  \/ \E roles \in RoleSets : RestrictTo(roles)
  \/ Downstream
  \/ \E cur \in Passwords, p \in Passwords, c \in Passwords : UpdatePassword(cur, p, c)
  \/ \E i \in Ids : DeleteUser(i)
  \/ Tick

SpecSession == InitSession /\ [][NextSession]_vars

\* The reset half alone: forgotPassword and resetPassword, with login and
\* protect to observe the sessions they leave.
NextReset ==
  \/ \E e \in Emails \cup {Absent}, p \in Passwords \cup {Absent} : Login(e, p)
  \/ \E e \in Emails, ok \in BOOLEAN : ForgotPassword(e, ok)
  \/ \E k \in ResetInputs, p \in Passwords, c \in Passwords : ResetPassword(k, p, c)
  \/ \E h \in AllHeaders, c \in AllCookies : Protect(h, c)
  \/ GetCurrentUser
  \/ \E i \in Ids : DeleteUser(i)
  \/ Tick

SpecReset == Init /\ [][NextReset]_vars

\* Logging out: login, logout and the protected pipeline of the seeded or
\* empty collection, with the password change that ends a session.
NextLogout ==
  \/ \E e \in Emails \cup {Absent}, p \in Passwords \cup {Absent} : Login(e, p)
  \/ Logout
  \/ \E h \in AllHeaders, c \in AllCookies : Protect(h, c)
  \/ GetCurrentUser
  \/ \E cur \in Passwords, p \in Passwords, c \in Passwords : UpdatePassword(cur, p, c)
  \/ \E i \in Ids : DeleteUser(i)
  \/ Tick

SpecLogout == InitSession /\ [][NextLogout]_vars

\* resetPassword requests served concurrently: the lookup and the save of
\* each are separate steps on the collection, interleaved in any order.
NextRace ==
  \/ \E r \in Reqs, k \in ResetInputs : ResetLookup(r, k)
  \/ \E r \in Reqs, p \in Passwords, c \in Passwords : ResetSave(r, p, c)
  \/ Tick

SpecRace == Init /\ [][NextRace]_vars

\* =================================================================
\* Properties
\* =================================================================

\* C1: restrictTo lets the request reach the downstream handler only when
\* the role of the attached user is in the allowed set (otherwise it
\* forwards a 403 and the handler is never invoked).
C1_GateEnforced ==
  /\ req.stage = "downstream" => req.user.role \in req.roles
  /\ (res.handler = "restrictTo" /\ req.user.role \notin req.roles)
       => (res.status = 403 /\ ~res.next)

\* C2: a session token is accepted by protect while its user's password has
\* never changed, and once a password change (resetPassword or
\* updatePassword) has succeeded, every token issued to that user at an
\* earlier time is rejected by protect with 401.
C2_OldTokensRejectedAfterChange ==
  /\ \A t \in issued :
       (Exists(users, t.id) /\ users[t.id].passwordChangedAt = Absent
          /\ Verify(t, now).ok)
         => ProtectResult(users, now, Bearer(t), NoToken).next
  /\ (res.handler \in {"resetPassword", "updatePassword"} /\ res.sent)
       => \A t \in issued :
            (t.id = res.token.id /\ t.iat < res.token.iat)
              => /\ ~ProtectResult(users, now, Bearer(t), NoToken).next
                 /\ ProtectResult(users, now, Bearer(t), NoToken).status = 401

\* the sendEmail call of the last forgotPassword request
LastMail == CHOOSE m \in mail : m.raw = SeedRaw + Cardinality(mail)

\* C3: when forgotPassword has answered 200, the stored record of the user
\* carries the hash of the emailed raw token and its expiry, and a
\* resetPassword with that raw token before the expiry succeeds.
C3_ResetTokenPersisted ==
  (res.handler = "forgotPassword" /\ res.sent /\ res.status = 200
     /\ Exists(users, LastMail.id))
    => /\ users[LastMail.id].passwordResetToken = HashResetSecret(LastMail.raw)
       /\ users[LastMail.id].passwordResetExpires # Absent
       /\ users[LastMail.id].passwordResetExpires > now
            => ResetPasswordCase(users, now, LastMail.raw, 1, 1) = "ok"

\* C4: a raw reset token that one resetPassword call has consumed is
\* refused by every later resetPassword call, with 400 and no change of
\* the store, whatever the time.
C4_ResetTokenSingleUse ==
  \A k \in used, p \in Passwords, c \in Passwords :
    /\ ResetPasswordResult(users, now, k, p, c).status = 400
    /\ ~ResetPasswordResult(users, now, k, p, c).sent
    /\ ResetPasswordStore(users, now, k, p, c) = users

\* a later call with a consumed token was refused before the token's
\* original expiry
C4_Witness ==
  /\ res.handler = "resetPassword" /\ res.status = 400
  /\ res.resetToken \in used
  /\ res.resetToken = SeedRaw /\ now < 1 + ResetWindow

\* the stored hash matches token k and its expiry is not in the future
ExpiredMatch(k) ==
  \E i \in Ids : /\ Exists(users, i)
                 /\ users[i].passwordResetToken = HashResetSecret(k)
                 /\ users[i].passwordResetExpires <= now

\* C5: resetPassword with a token whose stored expiry is not in the future
\* fails with 400 although the hash matches; the store is unchanged and no
\* session token is issued.
C5_ExpiredTokenRejected ==
  /\ \A k \in ResetInputs, p \in Passwords, c \in Passwords :
       ExpiredMatch(k) =>
         /\ ResetPasswordResult(users, now, k, p, c).status = 400
         /\ ResetPasswordResult(users, now, k, p, c).error = "AppError"
         /\ ResetPasswordResult(users, now, k, p, c).token = NoToken
         /\ ~ResetPasswordResult(users, now, k, p, c).sent
         /\ ResetPasswordStore(users, now, k, p, c) = users
  /\ (res.handler = "resetPassword" /\ res.sent) => ~ExpiredMatch(res.resetToken)

\* a request carrying the expired token of a stored record was refused
C5_Witness ==
  /\ res.handler = "resetPassword" /\ res.status = 400
  /\ res.message = "Token is invalid or has expired!"
  /\ ExpiredMatch(res.resetToken)
  /\ res.resetToken \notin used

\* C6: after a failed mail send, forgotPassword has cleared both reset
\* fields of the stored record when it forwards the 500, it sends no 200,
\* and the raw token of that request is refused by resetPassword from then
\* on.
C6_SendFailureRollsBack ==
  /\ (res.handler = "forgotPassword" /\ res.status = 500)
       => /\ ~res.sent /\ res.error = "AppError" /\ ~LastMail.delivered
          /\ Exists(users, LastMail.id)
               => /\ users[LastMail.id].passwordResetToken = Absent
                  /\ users[LastMail.id].passwordResetExpires = Absent
  /\ \A m \in mail : ~m.delivered =>
       \A p \in Passwords, c \in Passwords :
         /\ ResetPasswordCase(users, now, m.raw, p, c) = "invalid"
         /\ ResetPasswordResult(users, now, m.raw, p, c).status = 400

\* the raw token of a failed request was tried and refused
C6_Witness ==
  /\ res.handler = "resetPassword" /\ res.status = 400
  /\ \E m \in mail : ~m.delivered /\ m.raw = res.resetToken /\ Exists(users, m.id)

\* the token a request presents: the bearer token, else the cookie
Presented(h, c) == IF h.scheme = "Bearer" /\ h.token # NoToken THEN h.token ELSE c

\* C7: protect binds a user and passes the request on only when a token
\* was extracted, it verified, the user it names is in the store and that
\* user's password was not changed after the token's issued-at; with no
\* token in header or cookie, or with the named user deleted, it fails with
\* 401, binds no user and the downstream handler is not reached.
C7_ProtectGuards ==
  /\ \A h \in Headers, c \in Cookies :
       LET r == ProtectResult(users, now, h, c)
           tok == Presented(h, c)
       IN /\ r.next =>
               /\ tok # NoToken /\ Verify(tok, now).ok
               /\ Exists(users, tok.id)
               /\ ~(users[tok.id].passwordChangedAt > tok.iat)
               /\ r.user.id = tok.id /\ r.error = "none"
          /\ (tok = NoToken \/ (Verify(tok, now).ok /\ ~Exists(users, tok.id))) =>
               /\ r.status = 401 /\ r.error = "AppError"
               /\ ~r.next /\ r.user = NoUser
  /\ (res.handler = "protect" /\ ~res.next) => req = IdleReq
  /\ (res.handler = "protect" /\ res.next) =>
       (req.stage = "protected" /\ req.user = res.user /\ req.user.id # Absent)
  /\ req.stage # "idle" => req.user.id # Absent

\* protect has refused a token whose user was deleted after it was issued
C7_Witness ==
  /\ res.handler = "protect" /\ res.status = 401 /\ req = IdleReq
  /\ res.message = "The user belonging to this token no longer exists!"
  /\ \E t \in issued : ~Exists(users, t.id)

\* the messages of protect's own three refusals (no token, no user, stale)
ProtectOwnMessages ==
  {"You are not logged in! Please log in to your account.",
   "The user belonging to this token no longer exists!",
   "User recently changed his password! Please log in again."}

\* protect has refused the request because jwt.verify failed
VerifyFailed ==
  res.handler = "protect" /\ ~res.next /\ res.message \notin ProtectOwnMessages

\* C8: when token verification fails in protect, the request fails with a
\* classified error (an AppError) of status 401 and binds no user, and the
\* message is the one every other verification failure gets.
C8_VerifyFailureIs401 ==
  VerifyFailed =>
    /\ res.status = 401 /\ res.error = "AppError"
    /\ req = IdleReq
    /\ \A h \in Headers, c \in Cookies :
         (ExtractToken(h, c) # NoToken /\ ~Verify(ExtractToken(h, c), now).ok)
           => ProtectResult(users, now, h, c).message = res.message

\* C9: a login with a non-existent email and a login with an existing email
\* and a wrong password get the identical outcome: 401, the same message,
\* no cookie and no token.
C9_LoginNoEnumeration ==
  \A e1 \in Emails, e2 \in Emails, p1 \in Passwords, p2 \in Passwords :
    (/\ MatchEmail(users, e1) = {}
     /\ MatchEmail(users, e2) # {}
     /\ ~CorrectPassword(p2, FindOneByEmailWithPassword(users, e2).password)) =>
      /\ LoginResult(users, now, e1, p1) = LoginResult(users, now, e2, p2)
      /\ LoginResult(users, now, e1, p1).status = 401
      /\ LoginResult(users, now, e1, p1).token = NoToken
      /\ LoginResult(users, now, e1, p1).setCookie = NoCookie
      /\ ~LoginResult(users, now, e1, p1).sent

\* a login was refused in a state that has both an unknown email and an
\* account with another password
C9_Witness ==
  /\ res.handler = "login" /\ res.status = 401
  /\ \E e1 \in Emails, e2 \in Emails, p \in Passwords :
       /\ MatchEmail(users, e1) = {}
       /\ MatchEmail(users, e2) # {}
       /\ ~CorrectPassword(p, FindOneByEmailWithPassword(users, e2).password)
       /\ res = LoginResult(users, now, e2, p)

\* C10: a response body that carries a user object never carries that
\* user's password field.
C10_NoPasswordInBody ==
  res.hasUser => (res.sent /\ res.user.id # Absent /\ res.user.password = Absent)

\* a password change answered with the user while the store holds the hash
C10_Witness ==
  /\ res.handler = "updatePassword" /\ res.hasUser
  /\ Exists(users, res.user.id)
  /\ users[res.user.id].password # Absent

\* C11: a successful resetPassword (the stored hash matches and the expiry
\* is in the future) leaves the stored user with the new password, both
\* reset fields absent and passwordChangedAt equal to the time of the
\* reset, and answers 201 with a session token issued at that time.
C11_ResetSuccessUpdatesRecord ==
  [][\A k \in ResetInputs, p \in Passwords, c \in Passwords :
       (ResetPassword(k, p, c) /\ ResetPasswordCase(users, now, k, p, c) = "ok")
         => /\ res'.sent /\ res'.status = 201
            /\ res'.token = SignToken(res'.user.id, now)
            /\ users'[res'.user.id].password = HashPassword(p)
            /\ users'[res'.user.id].passwordResetToken = Absent
            /\ users'[res'.user.id].passwordResetExpires = Absent
            /\ users'[res'.user.id].passwordChangedAt = now]_vars

\* the handlers that answer with a session token
TokenHandlers == {"signup", "login", "resetPassword", "updatePassword"}

\* C12: the session token a successful signup, login, resetPassword or
\* updatePassword has returned is accepted by protect, from the header and
\* from the cookie, and binds its user, as long as the user exists, the
\* token has not expired and no other password change has happened; the
\* token of the password change itself passes the freshness check.
C12_IssuedTokenAccepted ==
  (res.handler \in TokenHandlers /\ res.sent /\ Exists(users, res.token.id)
     /\ Verify(res.token, now).ok)
    => /\ ProtectResult(users, now, Bearer(res.token), NoToken).next
       /\ ProtectResult(users, now, Bearer(res.token), NoToken).user.id = res.token.id
       /\ res.setCookie.value = res.token
       /\ ProtectResult(users, now, NoHeader, res.setCookie.value).next
       /\ ~ChangedPasswordAfter(users[res.token.id], res.token.iat)

\* protect has accepted the token that updatePassword issued together with
\* the change of passwordChangedAt
C12_Witness ==
  /\ res.handler = "protect" /\ res.next /\ req.stage = "protected"
  /\ \E t \in issued : /\ t.id = res.user.id
                       /\ Exists(users, t.id)
                       /\ users[t.id].passwordChangedAt = t.iat
                       /\ Verify(t, now).ok

\* C13: updatePassword with a current password that does not match the
\* stored hash fails with 401; the store (password and passwordChangedAt
\* included) is unchanged, no session token is issued and no cookie is set,
\* and every token the clients hold gets from protect what it got before.
C13_WrongCurrentPasswordRefused ==
  [][\A cur \in Passwords, p \in Passwords, c \in Passwords :
       (/\ UpdatePassword(cur, p, c)
        /\ Exists(users, req.user.id)
        /\ ~CorrectPassword(cur, users[req.user.id].password))
         => /\ res'.status = 401 /\ res'.error = "AppError" /\ ~res'.sent
            /\ res'.token = NoToken /\ res'.setCookie = NoCookie
            /\ users' = users /\ issued' = issued
            /\ \A t \in issued :
                 ProtectResult(users', now', Bearer(t), NoToken)
                   = ProtectResult(users, now, Bearer(t), NoToken)]_vars

\* updatePassword has refused a wrong current password and the token the
\* client holds is still accepted
C13_Witness ==
  /\ res.handler = "updatePassword" /\ res.status = 401
  /\ res.message = "Your current password is wrong!"
  /\ \E t \in issued : ProtectResult(users, now, Bearer(t), NoToken).next

\* C14: forgotPassword for an email that matches no user fails with 404;
\* no email is sent, no reset token is generated and the stored records
\* are unchanged.
C14_UnknownEmailIs404 ==
  [][\A e \in Emails, ok \in BOOLEAN :
       (ForgotPassword(e, ok) /\ MatchEmail(users, e) = {})
         => /\ res'.status = 404 /\ res'.error = "AppError"
            /\ ~res'.sent /\ ~res'.next
            /\ mail' = mail
            /\ users' = users]_vars

\* forgotPassword has answered 404 while the store holds an account with a
\* pending reset, and no mail has gone out
C14_Witness ==
  /\ res.handler = "forgotPassword" /\ res.status = 404
  /\ mail = {}
  /\ \E i \in Ids : Exists(users, i) /\ users[i].passwordResetToken # Absent

\* the raw reset secrets handed to users: the seeded one and the mailed ones
RawSecrets == {SeedRaw} \cup {m.raw : m \in mail}

\* C15: the reset token stored on a user record is never a raw token handed
\* to a user, and a resetPassword call that submits the stored (hashed)
\* value itself as the token matches no user: it gets 400 and changes
\* nothing.
C15_StoredTokenIsNotTheSecret ==
  /\ \A i \in Ids :
       (Exists(users, i) /\ users[i].passwordResetToken # Absent) =>
         /\ users[i].passwordResetToken \notin RawSecrets
         /\ \A p \in Passwords, c \in Passwords :
              /\ ResetPasswordCase(users, now, users[i].passwordResetToken, p, c)
                   = "invalid"
              /\ ResetPasswordResult(users, now, users[i].passwordResetToken, p, c).status
                   = 400
              /\ ResetPasswordStore(users, now, users[i].passwordResetToken, p, c)
                   = users
  /\ (/\ res.handler = "resetPassword"
      /\ \E i \in Ids : Exists(users, i) /\ users[i].passwordResetToken = res.resetToken)
       => (res.status = 400 /\ ~res.sent /\ res.token = NoToken)

\* a request that carried the stored value of an unexpired reset was refused
C15_Witness ==
  /\ res.handler = "resetPassword" /\ res.status = 400
  /\ \E i \in Ids : /\ Exists(users, i)
                    /\ users[i].passwordResetToken = res.resetToken
                    /\ users[i].passwordResetExpires > now

\* C16: logout is idempotent: every call answers 200 and overwrites the jwt
\* cookie with the sentinel value expiring LogoutCookieTTL after the call,
\* and a call that follows another logout sends the same status, message
\* and cookie value as the one before it (the very same response when
\* the clock has not moved); the store and the tokens held are untouched.
C16_LogoutIdempotent ==
  [][Logout =>
       /\ res'.sent /\ res'.status = 200 /\ ~res'.next /\ res'.error = "none"
       /\ res'.setCookie.value = LoggedOut
       /\ res'.setCookie.expires = now + LogoutCookieTTL
       /\ res'.token = NoToken
       /\ logouts' > 0
       /\ res.handler = "logout" =>
            /\ res'.status = res.status /\ res'.message = res.message
            /\ res'.setCookie.value = res.setCookie.value
            /\ res.setCookie.expires = now + LogoutCookieTTL => res' = res
       /\ users' = users /\ issued' = issued]_vars

\* logout has answered a second call in a row, made after the clock's
\* first unit
C16_Witness ==
  /\ res.handler = "logout" /\ res.status = 200
  /\ logouts = 2
  /\ res.setCookie.value = LoggedOut
  /\ res.setCookie.expires = now + LogoutCookieTTL
  /\ now > 1

\* C17: logout changes no server-side state: the collection is what it
\* was, and a session token protect accepted before the logout is accepted
\* after it from the Authorization header, beside the sentinel cookie the
\* logout has left; a client that has logged out keeps being accepted with
\* the tokens it holds, until they expire or the password changes.
C17_LogoutRevokesNothing ==
  /\ [][Logout =>
          /\ users' = users /\ nextId' = nextId /\ mail' = mail /\ used' = used
          /\ \A t \in AllTokens :
               /\ ProtectResult(users', now', Bearer(t), res'.setCookie.value)
                    = ProtectResult(users, now, Bearer(t), NoToken)
               /\ ProtectResult(users, now, Bearer(t), NoToken).next
                    => ProtectResult(users', now', Bearer(t), LoggedOut).next]_vars
  /\ [](logouts > 0 =>
          \A t \in issued :
            (/\ Exists(users, t.id)
             /\ Verify(t, now).ok
             /\ ~ChangedPasswordAfter(users[t.id], t.iat))
              => /\ ProtectResult(users, now, Bearer(t), LoggedOut).next
                 /\ ProtectResult(users, now, Bearer(t), LoggedOut).user.id = t.id)

\* after a logout, protect has accepted the token the client still holds
C17_Witness ==
  /\ logouts > 0
  /\ res.handler = "protect" /\ res.next /\ req.stage = "protected"
  /\ \E t \in issued : t.id = req.user.id /\ Verify(t, now).ok

\* C18: of the concurrent resetPassword requests that carry the same valid
\* raw token, whatever the interleaving of their lookups and saves, at most
\* one is answered 201; every other one that has finished got 400.
C18_SingleWinner ==
  \A r1 \in Reqs, r2 \in Reqs :
    (/\ r1 # r2
     /\ resets[r1].stage = "done" /\ resets[r2].stage = "done"
     /\ resets[r1].token = resets[r2].token
     /\ resets[r1].res.status = 201)
      => (resets[r2].res.status = 400 /\ ~resets[r2].res.sent)

\* the handlers of the authentication routes
AuthHandlers == {"signup", "login", "forgotPassword", "resetPassword", "updatePassword"}

\* C19: an invocation of signup, login, forgotPassword, resetPassword or
\* updatePassword ends in exactly one terminal outcome, a response sent or
\* an error forwarded, and a handler that has sent its response does not
\* pass control on with next().
C19_OneTerminalOutcome ==
  res.handler \in AuthHandlers =>
    /\ res.sent # (res.error # "none")
    /\ res.sent => ~res.next

====
